---- MODULE Spec2Model ----
(***************************************************************************)
(* RTT, a terminal text editor: the Editor controller (src/src/editor.rs)  *)
(* over the Terminal layer (src/src/terminal.rs) and the Document / Row    *)
(* line buffer.  One step of the model is one key event read from the      *)
(* terminal, handled to completion by the code that reads it: the main     *)
(* loop's process_keypress, or the prompt sub-loop entered by save().      *)
(***************************************************************************)
EXTENDS Integers, Sequences, FiniteSets, TLC

(* ------------------------------ bounds --------------------------------- *)
\* largest document, counted as its file is: its characters and one line end
\* for each line; a printable key that would exceed it is no longer offered
MaxDoc == 4
\* most characters typed at the prompt
MaxInput == 1
\* the terminal of specification Spec, as crossterm reports it at start-up
TermCols == 80
TermRows == 24
\* the largest terminal of specification SpecView
MaxTermCols == 1
MaxTermRows == 3

(* ------------------------- program constants --------------------------- *)
QUIT_TIMES == 3

\* printable characters that are typed
Chars == {"a", "b"}
\* the character Document.insert treats as the newline command
NL == "\n"

\* Option<T>: None, Some(v)
None == {}
Some(v) == {v}

Min(a, b) == IF a < b THEN a ELSE b
SatSub(a, b) == IF a > b THEN a - b ELSE 0

(* ------------------------------- keys ---------------------------------- *)
\* a crossterm KeyEvent: code, the character of a Char code, modifiers
Key(code, ch, mods) == [code |-> code, ch |-> ch, mods |-> mods]
CharKey(c) == Key("Char", c, "NONE")
Named(code) == Key(code, "", "NONE")
CtrlQ == Key("Char", "q", "CONTROL")
CtrlS == Key("Char", "s", "CONTROL")
NoKey == Key("", "", "NONE")
ArrowCodes == {"Up", "Down", "Left", "Right"}
\* key events no arm of process_keypress names
OtherKeys == {Named("Enter"), Named("Esc"), Named("PageUp"), Named("PageDown"),
              Named("Home"), Named("End"), Key("Up", "", "CONTROL")}
\* the key events read_key returns
Keys == {CtrlQ, CtrlS, Named("Delete"), Named("Backspace")}
          \cup {CharKey(c) : c \in Chars}
          \cup {Named(a) : a \in ArrowCodes}
          \cup OtherKeys
\* key events no arm of prompt() names
PromptOtherKeys ==
    Keys \ ({Named("Backspace"), Named("Esc")} \cup {CharKey(c) : c \in Chars})

(* ------------------------------- Row ----------------------------------- *)
\* Row and Document as the design describes them (its sections 4.1 and 4.2)
RowLen(row) == Len(row)

RowInsert(row, at, c) ==
    IF at >= Len(row) THEN Append(row, c)
    ELSE SubSeq(row, 1, at) \o <<c>> \o SubSeq(row, at + 1, Len(row))

RowDelete(row, at) ==
    IF at >= Len(row) THEN row
    ELSE SubSeq(row, 1, at) \o SubSeq(row, at + 2, Len(row))

RowAppend(row, other) == row \o other

RowSplit(row, at) == [head |-> SubSeq(row, 1, at), tail |-> SubSeq(row, at + 1, Len(row))]

(* ----------------------------- Document -------------------------------- *)
\* a document is the editor record's fields rows, dirty, file_name
DocLen(e) == Len(e.rows)

HasRow(e, y) == y < Len(e.rows)

\* document.row(y).len(), 0 when the row is absent
LineLen(e, y) == IF HasRow(e, y) THEN RowLen(e.rows[y + 1]) ELSE 0

\* the characters of line y, none when the line is absent
LineContent(e, y) == IF HasRow(e, y) THEN e.rows[y + 1] ELSE <<>>

DocIsDirty(e) == e.dirty

DocInsert(e, at, c) ==
    LET n == Len(e.rows) IN
    IF at.y = n THEN
        [e EXCEPT !.rows = Append(e.rows, <<c>>), !.dirty = TRUE]
    ELSE IF c = NL THEN
        LET s == RowSplit(e.rows[at.y + 1], at.x) IN
        [e EXCEPT !.rows = SubSeq(e.rows, 1, at.y) \o <<s.head, s.tail>>
                             \o SubSeq(e.rows, at.y + 2, n),
                  !.dirty = TRUE]
    ELSE
        [e EXCEPT !.rows[at.y + 1] = RowInsert(e.rows[at.y + 1], at.x, c),
                  !.dirty = TRUE]

DocDelete(e, at) ==
    LET n == Len(e.rows) IN
    IF at.y >= n THEN e
    ELSE IF at.x = RowLen(e.rows[at.y + 1]) /\ at.y + 1 < n THEN
        [e EXCEPT !.rows = SubSeq(e.rows, 1, at.y)
                             \o <<RowAppend(e.rows[at.y + 1], e.rows[at.y + 2])>>
                             \o SubSeq(e.rows, at.y + 3, n),
                  !.dirty = TRUE]
    ELSE IF at.x < RowLen(e.rows[at.y + 1]) THEN
        [e EXCEPT !.rows[at.y + 1] = RowDelete(e.rows[at.y + 1], at.x),
                  !.dirty = TRUE]
    ELSE e

\* Document.save: io_ok is whether the file system accepted the write
DocSave(e, io_ok) ==
    IF io_ok THEN [e EXCEPT !.dirty = FALSE, !.last_save = "ok"]
    ELSE [e EXCEPT !.last_save = "err"]

(* --------------------------- StatusMessage ----------------------------- *)
\* the text of a status message: a fixed text, the number or the typed input
\* that format! puts into it
Msg(text) == [text |-> text, n |-> 0, input |-> <<>>]
HelpMsg == Msg("Help: Ctrl-S = save | Ctrl-Q = quit")
OpenErrMsg(name) == [text |-> "ERR: Could not open file: {}", n |-> 0, input |-> name]
QuitWarning(n) ==
    [text |-> "WARNING! File has unsaved changes. Press Ctrl-Q {} more times to quit.",
     n |-> n, input |-> <<>>]
PromptMsg(prompt, input) == [text |-> prompt, n |-> 0, input |-> input]
EmptyMsg == Msg("")
SaveAborted == Msg("Save aborted.")
SaveOk == Msg("File saved successfully.")
SaveErr == Msg("Error writing file!")

(* ------------------------------ Terminal ------------------------------- *)
\* Terminal::default: the size crossterm reports, two rows kept for the bars
TerminalDefault(cols, trows) == [width |-> cols, height |-> SatSub(trows, 2)]

\* Terminal::read_key hands the next key event to its caller
read_key(e, key) == [e EXCEPT !.lastKey = key, !.last_save = "none"]

(* ------------------------------- Editor -------------------------------- *)
Pos(x, y) == [x |-> x, y |-> y]

\* scroll stopping one line short when the cursor leaves the window downwards
scroll_one_short(e) ==
    LET x == e.cursor_position.x
        y == e.cursor_position.y
        width == e.terminal.width
        height == e.terminal.height
        oy == IF y < e.offset.y THEN y
              ELSE IF y >= e.offset.y + height THEN SatSub(y, height)
              ELSE e.offset.y
        ox == IF x < e.offset.x THEN x
              ELSE IF x >= e.offset.x + width THEN SatSub(x, width) + 1
              ELSE e.offset.x
    IN [e EXCEPT !.offset = Pos(ox, oy)]

\* scroll stopping one column short when the cursor leaves the window rightwards
scroll_column_one_short(e) ==
    LET x == e.cursor_position.x
        y == e.cursor_position.y
        width == e.terminal.width
        height == e.terminal.height
        oy == IF y < e.offset.y THEN y
              ELSE IF y >= e.offset.y + height THEN SatSub(y, height) + 1
              ELSE e.offset.y
        ox == IF x < e.offset.x THEN x
              ELSE IF x >= e.offset.x + width THEN SatSub(x, width)
              ELSE e.offset.x
    IN [e EXCEPT !.offset = Pos(ox, oy)]

scroll(e) ==
    LET x == e.cursor_position.x
        y == e.cursor_position.y
        width == e.terminal.width
        height == e.terminal.height
        oy == IF y < e.offset.y THEN y
              ELSE IF y >= e.offset.y + height THEN SatSub(y, height) + 1
              ELSE e.offset.y
        ox == IF x < e.offset.x THEN x
              ELSE IF x >= e.offset.x + width THEN SatSub(x, width) + 1
              ELSE e.offset.x
    IN [e EXCEPT !.offset = Pos(ox, oy)]

\* the moves of the four arrows; wrap_x is where Left puts the cursor on the
\* line above, clamp whether the column is clamped to the new line
ArrowMove(e, code, wrap_x, clamp) ==
    LET y0 == e.cursor_position.y
        x0 == e.cursor_position.x
        moved ==
            CASE code = "Up" -> Pos(x0, SatSub(y0, 1))
              [] code = "Down" -> IF y0 < DocLen(e) THEN Pos(x0, y0 + 1) ELSE Pos(x0, y0)
              [] code = "Left" ->
                    IF x0 > 0 THEN Pos(x0 - 1, y0)
                    ELSE IF y0 > 0 THEN Pos(wrap_x, y0 - 1)
                    ELSE Pos(x0, y0)
              [] code = "Right" ->
                    IF x0 < LineLen(e, y0) THEN Pos(x0 + 1, y0)
                    ELSE IF y0 < DocLen(e) THEN Pos(0, y0 + 1)
                    ELSE Pos(x0, y0)
              [] OTHER -> Pos(x0, y0)
    IN [e EXCEPT !.cursor_position =
            IF clamp THEN Pos(Min(moved.x, LineLen(e, moved.y)), moved.y) ELSE moved]

\* move_cursor without the clamp of the column to the new line
move_cursor_no_clamp(e, code) ==
    ArrowMove(e, code, LineLen(e, e.cursor_position.y - 1), FALSE)

\* move_cursor with Left wrapping to the start of the line above
move_cursor_wrap_to_start(e, code) == ArrowMove(e, code, 0, TRUE)

\* move_cursor with Down not stopping at the line past the last one
move_cursor_down_unbounded(e, code) ==
    IF code = "Down" THEN
        [e EXCEPT !.cursor_position =
            Pos(Min(e.cursor_position.x, LineLen(e, e.cursor_position.y + 1)),
                e.cursor_position.y + 1)]
    ELSE ArrowMove(e, code, LineLen(e, e.cursor_position.y - 1), TRUE)

move_cursor(e, code) ==
    LET terminal_height == e.terminal.height
        y0 == e.cursor_position.y
        x0 == e.cursor_position.x
        height == DocLen(e)
        width == LineLen(e, y0)
        moved ==
            CASE code = "Up" -> Pos(x0, SatSub(y0, 1))
              [] code = "Down" -> IF y0 < height THEN Pos(x0, y0 + 1) ELSE Pos(x0, y0)
              [] code = "Left" ->
                    IF x0 > 0 THEN Pos(x0 - 1, y0)
                    ELSE IF y0 > 0 THEN Pos(LineLen(e, y0 - 1), y0 - 1)
                    ELSE Pos(x0, y0)
              [] code = "Right" ->
                    IF x0 < width THEN Pos(x0 + 1, y0)
                    ELSE IF y0 < height THEN Pos(0, y0 + 1)
                    ELSE Pos(x0, y0)
              [] code = "PageUp" ->
                    IF y0 > terminal_height THEN Pos(x0, y0 - terminal_height)
                    ELSE Pos(x0, 0)
              [] code = "PageDown" ->
                    IF y0 + terminal_height < height THEN Pos(x0, y0 + terminal_height)
                    ELSE Pos(x0, height)
              [] code = "Home" -> Pos(0, y0)
              [] code = "End" -> Pos(width, y0)
              [] OTHER -> Pos(x0, y0)
        width2 == LineLen(e, moved.y)
    IN [e EXCEPT !.cursor_position = Pos(Min(moved.x, width2), moved.y)]

\* the end of process_keypress without the reset of the counter
finish_keypress_no_reset(e) == scroll(e)

\* the end of process_keypress, which the early return of the Quit arm skips
finish_keypress(e) ==
    LET s == scroll(e) IN
    IF s.quit_times < QUIT_TIMES
    THEN [s EXCEPT !.quit_times = QUIT_TIMES, !.status_message = EmptyMsg]
    ELSE s

\* prompt() up to its first read_key: the prompt is shown and the key awaited
prompt_begin(e, prompt) ==
    [e EXCEPT !.pc = "prompt", !.result = <<>>,
              !.status_message = PromptMsg(prompt, <<>>)]

\* save() from the return of prompt() on
\* save() going on to write after the prompt gave no name
save_resume_no_return(e, new_name, io_ok) ==
    LET s == DocSave([e EXCEPT !.file_name = new_name], io_ok) IN
    [s EXCEPT !.status_message = IF io_ok THEN SaveOk ELSE SaveErr]

save_resume(e, new_name, io_ok) ==
    IF new_name = None THEN [e EXCEPT !.status_message = SaveAborted]
    ELSE LET s == DocSave([e EXCEPT !.file_name = new_name], io_ok) IN
         [s EXCEPT !.status_message = IF io_ok THEN SaveOk ELSE SaveErr]

\* save() with a file name known
save_named(e, io_ok) ==
    LET s == DocSave(e, io_ok) IN
    [s EXCEPT !.status_message = IF io_ok THEN SaveOk ELSE SaveErr]

save(e, io_ok) ==
    IF e.file_name = None THEN prompt_begin(e, "Save as: ")
    ELSE save_named(e, io_ok)

\* the Quit arm asking for one confirmation fewer
quit_arm_one_short(e) ==
    IF e.quit_times > 1 /\ DocIsDirty(e) THEN
        [e EXCEPT !.status_message = QuitWarning(e.quit_times),
                  !.quit_times = e.quit_times - 1]
    ELSE finish_keypress([e EXCEPT !.should_quit = TRUE])

\* the Quit arm asking for confirmation of a clean buffer too
quit_arm_ignores_dirty(e) ==
    IF e.quit_times > 0 THEN
        [e EXCEPT !.status_message = QuitWarning(e.quit_times),
                  !.quit_times = e.quit_times - 1]
    ELSE finish_keypress([e EXCEPT !.should_quit = TRUE])

quit_arm(e) ==
    IF e.quit_times > 0 /\ DocIsDirty(e) THEN
        [e EXCEPT !.status_message = QuitWarning(e.quit_times),
                  !.quit_times = e.quit_times - 1]
    ELSE finish_keypress([e EXCEPT !.should_quit = TRUE])

char_arm(e, c) == move_cursor(DocInsert(e, e.cursor_position, c), "Right")

\* the Delete arm stepping the cursor back after the delete
delete_arm_steps_back(e) == move_cursor(DocDelete(e, e.cursor_position), "Left")

delete_arm(e) == DocDelete(e, e.cursor_position)

\* Backspace without the test for the start of the document
backspace_arm_unguarded(e) ==
    LET m == move_cursor(e, "Left") IN DocDelete(m, m.cursor_position)

\* Backspace deleting under the cursor before it moves left
backspace_arm_delete_first(e) ==
    IF e.cursor_position.x > 0 \/ e.cursor_position.y > 0 THEN
        move_cursor(DocDelete(e, e.cursor_position), "Left")
    ELSE e

\* Backspace deleting under the cursor and leaving the cursor where it is
backspace_arm_no_move(e) ==
    IF e.cursor_position.x > 0 \/ e.cursor_position.y > 0 THEN
        DocDelete(e, e.cursor_position)
    ELSE e

backspace_arm(e) ==
    IF e.cursor_position.x > 0 \/ e.cursor_position.y > 0 THEN
        LET m == move_cursor(e, "Left") IN DocDelete(m, m.cursor_position)
    ELSE e

\* process_keypress for the key event `key`; a Save without a file name leaves
\* it inside prompt(), waiting for the prompt's first key
process_keypress(e0, key, io_ok) ==
    LET e == read_key(e0, key) IN
    IF key = CtrlQ THEN quit_arm(e)
    ELSE IF key = CtrlS THEN
        LET s == save(e, io_ok) IN
        IF s.pc = "prompt" THEN s ELSE finish_keypress(s)
    ELSE IF key.code = "Char" /\ key.mods = "NONE" THEN
        finish_keypress(char_arm(e, key.ch))
    ELSE IF key = Named("Delete") THEN finish_keypress(delete_arm(e))
    ELSE IF key = Named("Backspace") THEN finish_keypress(backspace_arm(e))
    ELSE IF key.code \in ArrowCodes /\ key.mods = "NONE" THEN
        finish_keypress(move_cursor(e, key.code))
    ELSE finish_keypress(e)

is_control(c) == c = NL

\* the match of prompt() with its last arm leaving the loop
prompt_match_other_stops(result, key) ==
    IF key = Named("Backspace") THEN
        [result |-> IF result # <<>> THEN SubSeq(result, 1, Len(result) - 1) ELSE result,
         stop |-> FALSE]
    ELSE IF key = CharKey(NL) THEN [result |-> result, stop |-> TRUE]
    ELSE IF key.code = "Char" /\ key.mods = "NONE" THEN
        [result |-> IF ~is_control(key.ch) THEN Append(result, key.ch) ELSE result,
         stop |-> FALSE]
    ELSE IF key = Named("Esc") THEN [result |-> <<>>, stop |-> TRUE]
    ELSE [result |-> result, stop |-> TRUE]

\* what one key does to the prompt's accumulated input, and whether it ends the loop
prompt_match(result, key) ==
    IF key = Named("Backspace") THEN
        [result |-> IF result # <<>> THEN SubSeq(result, 1, Len(result) - 1) ELSE result,
         stop |-> FALSE]
    ELSE IF key = CharKey(NL) THEN [result |-> result, stop |-> TRUE]
    ELSE IF key.code = "Char" /\ key.mods = "NONE" THEN
        [result |-> IF ~is_control(key.ch) THEN Append(result, key.ch) ELSE result,
         stop |-> FALSE]
    ELSE IF key = Named("Esc") THEN [result |-> <<>>, stop |-> TRUE]
    ELSE [result |-> result, stop |-> FALSE]

\* prompt() after its loop: the value it returns
prompt_end(result) == IF result = <<>> THEN None ELSE Some(result)

\* prompt() returns the input to save(), which runs to its own return
save_after_prompt(e, input, io_ok) ==
    LET left == [e EXCEPT !.result = <<>>, !.pc = "run", !.status_message = EmptyMsg]
    IN save_resume(left, prompt_end(input), io_ok)

\* one key read inside prompt(): the loop goes round, or prompt() returns to
\* save(), which returns to process_keypress, which runs to its end
prompt_key(e0, key, io_ok) ==
    LET e == read_key(e0, key)
        m == prompt_match(e.result, key)
    IN IF ~m.stop THEN
           [e EXCEPT !.result = m.result,
                     !.status_message = PromptMsg("Save as: ", m.result)]
       ELSE finish_keypress(save_after_prompt(e, m.result, io_ok))

\* refresh_screen fails inside prompt(): prompt() returns the error before it
\* reads a key or clears the status, save() takes it for no value and gives up,
\* and process_keypress runs to its end
prompt_refresh_fails(e) ==
    finish_keypress(save_resume([e EXCEPT !.result = <<>>, !.pc = "run"], None, FALSE))

\* die: the screen is cleared and the process panics
die(e) == [e EXCEPT !.pc = "panicked"]

(* ------------------------------- state --------------------------------- *)
VARIABLES
    ed,        \* the Editor and what its methods hold while they run:
               \*   rows, dirty, file_name    the Document
               \*   cursor_position, offset, terminal, should_quit,
               \*   quit_times, status_message (its text)
               \*   pc       "run": in the loop of Editor::run, "prompt": inside
               \*            prompt(), called by save(); "exited": run() returned;
               \*            "panicked": die() ended the process
               \*   result   prompt()'s accumulated input
               \*   lastKey  the key event read_key returned last
               \*   last_save  whether handling that key called Document.save:
               \*              "none", or its outcome "ok" / "err"
    screen,    \* what refresh_screen drew last: "blank", "editor", "goodbye", or
               \* "failed" when it returned an error
    quit_run   \* Quit commands the main loop handled since its last other key

vars == <<ed, screen, quit_run>>

(* ------------------------------- Init ---------------------------------- *)
RECURSIVE TotalChars(_)
TotalChars(rs) == IF rs = <<>> THEN 0 ELSE Len(Head(rs)) + TotalChars(Tail(rs))

\* the size of the document's file
DocSize(rs) == TotalChars(rs) + Len(rs)

\* the lines of at most k characters
Lines(k) == UNION {[1..n -> Chars] : n \in 0..k}
\* the documents Document::open can build within the bound
Documents ==
    {d \in UNION {[1..n -> Lines(MaxDoc - n)] : n \in 0..MaxDoc} : DocSize(d) <= MaxDoc}

\* the file name given on the command line
FileArg == <<"f">>

\* Editor::default: opened is whether a file was named and Document::open read
\* it into doc; message is the initial status
EditorDefault(size, opened, doc, message) ==
    [rows |-> IF opened THEN doc ELSE <<>>,
     dirty |-> FALSE,
     file_name |-> IF opened THEN Some(FileArg) ELSE None,
     cursor_position |-> Pos(0, 0),
     offset |-> Pos(0, 0),
     terminal |-> size,
     should_quit |-> FALSE,
     quit_times |-> QUIT_TIMES,
     status_message |-> message,
     result |-> <<>>,
     pc |-> "run",
     lastKey |-> NoKey,
     last_save |-> "none"]

\* the editors Editor::default can build on a terminal of one of the sizes
Editors(sizes) ==
    {EditorDefault(size, TRUE, doc, HelpMsg) : size \in sizes, doc \in Documents}
      \cup {EditorDefault(size, FALSE, <<>>, m) :
                size \in sizes, m \in {HelpMsg, OpenErrMsg(FileArg)}}

Init ==
    /\ ed \in Editors({TerminalDefault(TermCols, TermRows)})
    /\ screen = "blank"
    /\ quit_run = 0

InitView ==
    /\ ed \in Editors({TerminalDefault(cols, trows) :
                          cols \in 0..MaxTermCols, trows \in 0..MaxTermRows})
    /\ screen = "blank"
    /\ quit_run = 0

(* ------------------------------ actions -------------------------------- *)
\* one turn of the loop of Editor::run that reads a key: refresh_screen draws
\* the editor, should_quit is false, process_keypress handles the key
RunKey(key, io_ok) ==
    /\ ed.pc = "run"
    /\ ~ed.should_quit
    /\ screen' = "editor"
    /\ ed' = process_keypress(ed, key, io_ok)
    /\ quit_run' = IF key = CtrlQ THEN quit_run + 1 ELSE 0

Quit == RunKey(CtrlQ, TRUE)

Save == \E io_ok \in BOOLEAN : RunKey(CtrlS, io_ok)

\* a printable key, offered while the document stays within the bound
InsertChar ==
    \E c \in Chars :
        /\ DocSize(ed.rows) + (IF ed.cursor_position.y = Len(ed.rows) THEN 2 ELSE 1)
              <= MaxDoc
        /\ RunKey(CharKey(c), TRUE)

Delete == RunKey(Named("Delete"), TRUE)

Backspace == RunKey(Named("Backspace"), TRUE)

Move == \E a \in ArrowCodes : RunKey(Named(a), TRUE)

Ignored == \E k \in OtherKeys : RunKey(k, TRUE)

\* the turn of the loop of Editor::run that finds should_quit set
RunExit ==
    /\ ed.pc = "run"
    /\ ed.should_quit
    /\ screen' = "goodbye"
    /\ ed' = [ed EXCEPT !.pc = "exited"]
    /\ UNCHANGED quit_run

\* one turn of the loop of prompt(): the prompt is drawn, the key read and matched
PromptKey(key, io_ok) ==
    /\ ed.pc = "prompt"
    /\ screen' = "editor"
    /\ ed' = prompt_key(ed, key, io_ok)
    /\ UNCHANGED quit_run

PromptBackspace == PromptKey(Named("Backspace"), TRUE)

PromptChar ==
    \E c \in Chars :
        /\ Len(ed.result) < MaxInput
        /\ \E io_ok \in BOOLEAN : PromptKey(CharKey(c), io_ok)

\* Escape: prompt() returns no value and save() gives up
PromptEsc == PromptKey(Named("Esc"), TRUE)

PromptIgnored == \E k \in PromptOtherKeys : PromptKey(k, TRUE)

Next ==
    \/ Quit
    \/ Save
    \/ InsertChar
    \/ Delete
    \/ Backspace
    \/ Move
    \/ Ignored
    \/ RunExit
    \/ PromptBackspace
    \/ PromptChar
    \/ PromptEsc
    \/ PromptIgnored

Spec == Init /\ [][Next]_vars

\* refresh_screen returns an error in the loop of Editor::run
RefreshFails ==
    /\ ed.pc = "run"
    /\ screen' = "failed"
    /\ ed' = die(ed)
    /\ UNCHANGED quit_run

\* refresh_screen returns an error in the loop of prompt()
PromptRefreshFails ==
    /\ ed.pc = "prompt"
    /\ screen' = "failed"
    /\ ed' = prompt_refresh_fails(ed)
    /\ UNCHANGED quit_run

\* the editor on a terminal whose writes can fail
NextIo ==
    \/ Quit
    \/ Save
    \/ InsertChar
    \/ Delete
    \/ Backspace
    \/ Move
    \/ Ignored
    \/ RunExit
    \/ PromptBackspace
    \/ PromptChar
    \/ PromptEsc
    \/ PromptIgnored
    \/ RefreshFails
    \/ PromptRefreshFails

SpecIo == Init /\ [][NextIo]_vars

\* the keys that edit and navigate, on terminals of every small size
NextView ==
    \/ InsertChar
    \/ Delete
    \/ Backspace
    \/ Move
    \/ Ignored

SpecView == InitView /\ [][NextView]_vars

(* ------------------------------ claims --------------------------------- *)
InRun == ed.pc = "run" /\ ~ed.should_quit

\* C1: with the buffer dirty, the first, second and third Quit press in a row
\* each leave the editor running, with the counter one lower and the warning
\* naming the presses that were left, and the fourth sets should_quit; no
\* other number of presses ends a dirty editor.
C1_QuitNeedsThreeConfirmations ==
    /\ quit_run <= QUIT_TIMES + 1
    /\ (ed.dirty /\ quit_run \in 1..QUIT_TIMES) =>
          /\ ed.pc = "run"
          /\ ~ed.should_quit
          /\ ed.quit_times = QUIT_TIMES - quit_run
          /\ ed.status_message = QuitWarning(QUIT_TIMES + 1 - quit_run)
    /\ (ed.dirty /\ quit_run = QUIT_TIMES + 1) => ed.should_quit
    /\ (ed.dirty /\ ed.should_quit) => quit_run = QUIT_TIMES + 1
    /\ (ed.dirty /\ ed.pc = "exited") => quit_run = QUIT_TIMES + 1

C1_Witness == ed.dirty /\ ed.pc = "exited" /\ quit_run = QUIT_TIMES + 1

\* C2: whenever process_keypress has returned for a key other than Quit, the
\* quit-confirmation counter is 3.
C2_NonQuitKeyResetsCounter ==
    (ed.pc = "run" /\ ed.lastKey \notin {NoKey, CtrlQ}) => ed.quit_times = QUIT_TIMES

\* a Save that succeeded and whose message the reset of a lowered counter cleared
C2_Witness ==
    /\ ed.pc = "run"
    /\ ed.lastKey = CtrlS
    /\ ed.last_save = "ok"
    /\ ed.status_message = EmptyMsg
    /\ ed.quit_times = QUIT_TIMES

\* C3: a Quit read while the buffer is not dirty sets should_quit, whatever the
\* counter; once should_quit is set the only step left is the loop's exit, which
\* draws the goodbye screen and reads no key.
C3_CleanQuit ==
    /\ [](InRun /\ ~ed.dirty =>
            \A n \in 0..QUIT_TIMES :
                process_keypress([ed EXCEPT !.quit_times = n], CtrlQ, TRUE).should_quit)
    /\ [][(InRun /\ ~ed.dirty /\ ed'.lastKey = CtrlQ) => ed'.should_quit]_vars
    /\ [][ed.should_quit =>
            /\ ed' = [ed EXCEPT !.pc = "exited"]
            /\ screen' = "goodbye"]_vars
    /\ [](ed.pc = "exited" => ed.should_quit /\ screen = "goodbye" /\ ed.lastKey = CtrlQ)

\* the editor left by one Quit after a Save had cleaned a buffer on which a
\* Quit had gone unconfirmed (the reset of the lowered counter cleared the
\* message of that Save)
C3_Witness ==
    /\ ed.pc = "exited"
    /\ ~ed.dirty
    /\ quit_run = 1
    /\ ed.rows # <<>>
    /\ ed.status_message = EmptyMsg

\* C4 as claimed: after a navigation key, on a terminal of any height the
\* terminal layer reports, the cursor line is inside the vertical window
\* whenever height <= docLen.
C4_AsClaimed ==
    (ed.lastKey \in {Named(a) : a \in ArrowCodes} /\ ed.terminal.height <= DocLen(ed)) =>
        /\ ed.offset.y <= ed.cursor_position.y
        /\ ed.cursor_position.y < ed.offset.y + ed.terminal.height

\* C4, amended: in every state, offset.y <= cursor.y < offset.y + height
\* whenever 1 <= height <= docLen.
C4_VerticalWindow ==
    (1 <= ed.terminal.height /\ ed.terminal.height <= DocLen(ed)) =>
        /\ ed.offset.y <= ed.cursor_position.y
        /\ ed.cursor_position.y < ed.offset.y + ed.terminal.height

\* Down has pushed the window down: the cursor is on its last line
C4_Witness ==
    /\ ed.lastKey = Named("Down")
    /\ 1 <= ed.terminal.height
    /\ ed.terminal.height <= DocLen(ed)
    /\ ed.offset.y > 0
    /\ ed.cursor_position.y = ed.offset.y + ed.terminal.height - 1

\* C5: in every state the cursor column is at most the length of the line the
\* cursor is on, 0 for an absent line.
C5_CursorWithinLine ==
    ed.cursor_position.x <= LineLen(ed, ed.cursor_position.y)

\* Down has landed at the end of a line shorter than the one above it
C5_Witness ==
    /\ ed.lastKey = Named("Down")
    /\ ed.cursor_position.y >= 1
    /\ ed.cursor_position.x = LineLen(ed, ed.cursor_position.y)
    /\ LineLen(ed, ed.cursor_position.y - 1) > LineLen(ed, ed.cursor_position.y)

\* C6: where the main loop reads keys, Right at the end of a line that is not
\* the last moves the cursor to (0, y+1) and a Left after it moves it back;
\* Left at (0, y), y > 0, moves it to (lineLen(y-1), y-1) and a Right after it
\* moves it back.
C6_LineWrapSymmetry ==
    InRun =>
        LET x == ed.cursor_position.x
            y == ed.cursor_position.y
            right == process_keypress(ed, Named("Right"), TRUE)
            left == process_keypress(ed, Named("Left"), TRUE)
        IN /\ (x = LineLen(ed, y) /\ y + 1 < DocLen(ed)) =>
                 /\ right.cursor_position = Pos(0, y + 1)
                 /\ process_keypress(right, Named("Left"), TRUE).cursor_position = Pos(x, y)
           /\ (x = 0 /\ y > 0) =>
                 /\ left.cursor_position = Pos(LineLen(ed, y - 1), y - 1)
                 /\ process_keypress(left, Named("Right"), TRUE).cursor_position = Pos(x, y)

\* Left has wrapped from (0, y+1) to the end of the non-empty line y, and Right
\* wraps back
C6_Witness ==
    /\ InRun
    /\ ed.lastKey = Named("Left")
    /\ ed.cursor_position.y + 1 < DocLen(ed)
    /\ ed.cursor_position.x = LineLen(ed, ed.cursor_position.y)
    /\ ed.cursor_position.x > 0
    /\ process_keypress(ed, Named("Right"), TRUE).cursor_position
          = Pos(0, ed.cursor_position.y + 1)

\* C7: a Backspace the main loop reads with the cursor at (0,0) leaves the
\* lines of the buffer, the dirty flag and the cursor as they were.
C7_BackspaceAtStart ==
    [][(InRun /\ ed'.lastKey = Named("Backspace") /\ ed.cursor_position = Pos(0, 0)) =>
          /\ ed'.rows = ed.rows
          /\ ed'.dirty = ed.dirty
          /\ ed'.cursor_position = ed.cursor_position]_vars

\* a Backspace handled at the start of a clean document whose first line is
\* not empty (from any other place it would have dirtied the buffer or left
\* the cursor elsewhere)
C7_Witness ==
    /\ ed.lastKey = Named("Backspace")
    /\ ed.pc = "run"
    /\ ed.cursor_position = Pos(0, 0)
    /\ ~ed.dirty
    /\ LineLen(ed, 0) > 0

\* C8: an Enter key the main loop reads with the cursor at (x, y) on a line of
\* the buffer splits that line at x and moves the cursor to (0, y+1).
C8_EnterSplitsLine ==
    [][(InRun /\ ed'.lastKey = Named("Enter")
          /\ HasRow(ed, ed.cursor_position.y)) =>
          LET x == ed.cursor_position.x
              y == ed.cursor_position.y
              s == RowSplit(ed.rows[y + 1], x)
          IN /\ ed'.rows = SubSeq(ed.rows, 1, y) \o <<s.head, s.tail>>
                              \o SubSeq(ed.rows, y + 2, Len(ed.rows))
             /\ ed'.cursor_position = Pos(0, y + 1)
             /\ ed'.dirty]_vars

\* C9 as claimed, for a cursor on a line of the buffer: a printable key followed
\* by a delete at the cursor it leaves (the Delete key) restores the content of
\* the line the cursor was on.
C9_AsClaimed ==
    (InRun /\ HasRow(ed, ed.cursor_position.y)) =>
        \A c \in Chars :
            LET typed == process_keypress(ed, CharKey(c), TRUE)
                after == process_keypress(typed, Named("Delete"), TRUE)
            IN LineContent(after, ed.cursor_position.y)
                  = LineContent(ed, ed.cursor_position.y)

\* C9, amended: a printable key followed by a delete at the place of the
\* insertion, which is where Backspace deletes after moving the cursor back,
\* restores the content of the line (an absent line is left empty) and the
\* cursor; the buffer is as before but for that line left empty at its end.
C9_InsertThenDeleteThere ==
    InRun =>
        \A c \in Chars :
            LET y == ed.cursor_position.y
                typed == process_keypress(ed, CharKey(c), TRUE)
                there == DocDelete(typed, ed.cursor_position)
                after == process_keypress(typed, Named("Backspace"), TRUE)
            IN /\ typed.cursor_position = Pos(ed.cursor_position.x + 1, y)
               /\ LineContent(typed, y) # LineContent(ed, y)
               /\ LineContent(there, y) = LineContent(ed, y)
               /\ after.rows = there.rows
               /\ after.cursor_position = ed.cursor_position
               /\ after.rows = IF HasRow(ed, y) THEN ed.rows ELSE Append(ed.rows, <<>>)

\* a Backspace has just removed a character from inside a line of two letters,
\* and the cursor stands between two characters
C9_Witness ==
    /\ InRun
    /\ ed.lastKey = Named("Backspace")
    /\ ed.dirty
    /\ 0 < ed.cursor_position.x
    /\ ed.cursor_position.x < LineLen(ed, ed.cursor_position.y)
    /\ ed.rows[ed.cursor_position.y + 1][ed.cursor_position.x]
          # ed.rows[ed.cursor_position.y + 1][ed.cursor_position.x + 1]

\* C10: a Save read with no file name known enters the prompt without calling
\* Document.save; Escape at the prompt makes prompt() return no value and
\* save() return with the status "Save aborted.", and when process_keypress
\* has returned the file name is still absent, Document.save was not called,
\* the dirty flag and the lines are as before (the status is "Save aborted."
\* unless a lowered quit counter was reset, which clears it).
C10_EscapeAbortsSave ==
    /\ [][(InRun /\ ed'.lastKey = CtrlS /\ ed.file_name = None) =>
            /\ ed'.pc = "prompt"
            /\ ed'.status_message = PromptMsg("Save as: ", <<>>)
            /\ ed'.last_save = "none"
            /\ ed'.file_name = None /\ ed'.dirty = ed.dirty /\ ed'.rows = ed.rows]_vars
    /\ [](ed.pc = "prompt" =>
            \A io_ok \in BOOLEAN :
                LET m == prompt_match(ed.result, Named("Esc"))
                    s == save_after_prompt(read_key(ed, Named("Esc")), m.result, io_ok)
                IN /\ m.stop
                   /\ s.status_message = SaveAborted
                   /\ s.file_name = None /\ s.last_save = "none"
                   /\ s.dirty = ed.dirty /\ s.rows = ed.rows)
    /\ [][(ed.pc = "prompt" /\ ed'.lastKey = Named("Esc")) =>
            /\ ed'.pc = "run"
            /\ ed'.file_name = None
            /\ ed'.last_save = "none"
            /\ ed'.dirty = ed.dirty
            /\ ed'.rows = ed.rows
            /\ ed'.status_message =
                  IF ed.quit_times < QUIT_TIMES THEN EmptyMsg ELSE SaveAborted]_vars

\* the editor after an aborted Save of a dirty unnamed buffer
C10_Witness ==
    /\ ed.pc = "run"
    /\ ed.lastKey = Named("Esc")
    /\ ed.status_message = SaveAborted
    /\ ed.file_name = None
    /\ ed.dirty

\* C11: an Enter key read inside prompt() ends the loop; with input typed, the
\* file name becomes that input and Document.save is called.
C11_EnterEndsPrompt ==
    [][(ed.pc = "prompt" /\ ed'.lastKey = Named("Enter")) =>
          /\ ed'.pc = "run"
          /\ ed.result # <<>> =>
                (ed'.file_name = Some(ed.result) /\ ed'.last_save # "none")
          /\ ed.result = <<>> => ed'.file_name = None]_vars

\* C12: a Save whose Document.save fails leaves lines, dirty flag, cursor,
\* offset and file name as they were and the status reporting the failure.
C12_FailedSaveKeepsState ==
    [][(ed.pc \in {"run", "prompt"} /\ ~ed.should_quit
          /\ ed'.lastKey \in {CtrlS, Named("Enter"), CharKey(NL)}
          /\ ed'.last_save = "err") =>
          /\ ed'.rows = ed.rows
          /\ ed'.dirty = ed.dirty
          /\ ed'.cursor_position = ed.cursor_position
          /\ ed'.offset = ed.offset
          /\ ed'.file_name = ed.file_name
          /\ ed'.status_message = SaveErr]_vars

\* C13: PageUp, PageDown, Home and End read by the main loop move the cursor
\* as the transition table says, with the column clamped to the new line.
C13_PageHomeEndMove ==
    [][(InRun /\ ed'.lastKey \in {Named("PageUp"), Named("PageDown"),
                                   Named("Home"), Named("End")}) =>
          LET x == ed.cursor_position.x
              y == ed.cursor_position.y
              H == ed.terminal.height
              k == ed'.lastKey.code
              ny == CASE k = "PageUp" -> SatSub(y, H)
                      [] k = "PageDown" -> Min(y + H, DocLen(ed))
                      [] OTHER -> y
              nx == CASE k = "Home" -> 0
                      [] k = "End" -> LineLen(ed, y)
                      [] OTHER -> x
          IN ed'.cursor_position = Pos(Min(nx, LineLen(ed, ny)), ny)]_vars

\* C14: a Delete read by the main loop leaves the cursor where it is; at the
\* end of a line that has a next line it appends the next line to this one and
\* the buffer has one line fewer; inside a line it removes the character under
\* the cursor; at the end of the last line and past it, it changes nothing.
C14_DeleteForward ==
    [][(InRun /\ ed'.lastKey = Named("Delete")) =>
          LET x == ed.cursor_position.x
              y == ed.cursor_position.y
              n == Len(ed.rows)
          IN /\ ed'.cursor_position = ed.cursor_position
             /\ (y + 1 < n /\ x = LineLen(ed, y)) =>
                   /\ Len(ed'.rows) = n - 1
                   /\ ed'.rows[y + 1] = ed.rows[y + 1] \o ed.rows[y + 2]
                   /\ \A i \in 1..y : ed'.rows[i] = ed.rows[i]
                   /\ \A i \in (y + 2)..(n - 1) : ed'.rows[i] = ed.rows[i + 1]
                   /\ ed'.dirty
             /\ (y < n /\ x < LineLen(ed, y)) =>
                   /\ Len(ed'.rows) = n
                   /\ ed'.rows[y + 1] = SubSeq(ed.rows[y + 1], 1, x)
                                           \o SubSeq(ed.rows[y + 1], x + 2, LineLen(ed, y))
                   /\ \A i \in (1..n) \ {y + 1} : ed'.rows[i] = ed.rows[i]
                   /\ ed'.dirty
             /\ (y >= n \/ (y + 1 = n /\ x = LineLen(ed, y))) =>
                   (ed'.rows = ed.rows /\ ed'.dirty = ed.dirty)]_vars

\* a Delete has left one line "ab" with the cursor between its letters, as the
\* join of "a" and "b" at (1,0) does
C14_Witness ==
    /\ ed.pc = "run"
    /\ ed.lastKey = Named("Delete")
    /\ ed.rows = << <<"a", "b">> >>
    /\ ed.cursor_position = Pos(1, 0)
    /\ ed.dirty

C16_Backspace ==
    [][(InRun /\ ed'.lastKey = Named("Backspace")) =>
          LET x == ed.cursor_position.x
              y == ed.cursor_position.y
              n == Len(ed.rows)
          IN /\ x > 0 =>
                   /\ ed'.cursor_position = Pos(x - 1, y)
                   /\ Len(ed'.rows) = n
                   /\ ed'.rows[y + 1] = SubSeq(ed.rows[y + 1], 1, x - 1)
                                           \o SubSeq(ed.rows[y + 1], x + 1, LineLen(ed, y))
                   /\ \A i \in (1..n) \ {y + 1} : ed'.rows[i] = ed.rows[i]
             /\ (x = 0 /\ 0 < y /\ y < n) =>
                   /\ ed'.cursor_position = Pos(LineLen(ed, y - 1), y - 1)
                   /\ Len(ed'.rows) = n - 1
                   /\ ed'.rows[y] = ed.rows[y] \o ed.rows[y + 1]
                   /\ \A i \in 1..(y - 1) : ed'.rows[i] = ed.rows[i]
                   /\ \A i \in (y + 1)..(n - 1) : ed'.rows[i] = ed.rows[i + 1]]_vars

\* a Backspace has left one line "ab" with the cursor between its letters, as
\* the join of "a" and "b" from (0,1) does
C16_Witness ==
    /\ ed.pc = "run"
    /\ ed.lastKey = Named("Backspace")
    /\ ed.rows = << <<"a", "b">> >>
    /\ ed.cursor_position = Pos(1, 0)
    /\ ed.dirty

\* C17: when a Save has been handled, by the main loop alone or through the
\* prompt, the status message tells its outcome.
C17_SaveOutcomeShown ==
    [][((InRun /\ ed'.lastKey = CtrlS /\ ed'.pc = "run")
           \/ (ed.pc = "prompt" /\ ed'.pc = "run")) =>
          ed'.status_message = CASE ed'.last_save = "ok" -> SaveOk
                                 [] ed'.last_save = "err" -> SaveErr
                                 [] OTHER -> SaveAborted]_vars

\* C18: a key no arm of process_keypress matches sets no should_quit and leaves
\* lines, dirty flag, file name, cursor and offset as they were.
C18_IgnoredKeyChangesNothing ==
    [][(InRun /\ ed'.lastKey \in OtherKeys) =>
          /\ ~ed'.should_quit
          /\ ed'.pc = "run"
          /\ ed'.rows = ed.rows
          /\ ed'.dirty = ed.dirty
          /\ ed'.file_name = ed.file_name
          /\ ed'.cursor_position = ed.cursor_position
          /\ ed'.offset = ed.offset]_vars

\* C19: the cursor line is never beyond the line past the last one, and on
\* that line the cursor column is 0.
C19_CursorLineWithinDocument ==
    /\ ed.cursor_position.y <= DocLen(ed)
    /\ ed.cursor_position.y = DocLen(ed) => ed.cursor_position.x = 0

\* Down has taken the cursor to the line past the last of two or more lines
C19_Witness ==
    /\ ed.lastKey = Named("Down")
    /\ DocLen(ed) >= 2
    /\ ed.cursor_position = Pos(0, DocLen(ed))

\* what no turn of the loop of prompt() changes
PromptFrame ==
    /\ [][(ed.pc = "prompt" /\ ed'.pc = "prompt") =>
             /\ ed'.rows = ed.rows
             /\ ed'.dirty = ed.dirty
             /\ ed'.file_name = ed.file_name
             /\ ed'.cursor_position = ed.cursor_position
             /\ ed'.offset = ed.offset
             /\ ed'.terminal = ed.terminal
             /\ ed'.quit_times = ed.quit_times]_vars
    /\ [][ed.pc = "prompt" => ~ed'.should_quit]_vars

====
